---- MODULE Spec2Model ----
(***************************************************************************)
(* Model of the TF kernel-to-LLVM lowering pass                            *)
(* (tensorflow/compiler/mlir/tools/kernel_gen/transforms/                  *)
(*  tf_kernel_to_llvm_pass.cc): the rewrite of gpu.launch_func into a call *)
(* of tfKernelGenLaunchKernel and the pass driver around it.               *)
(*                                                                         *)
(* Symbol names and string payloads are sequences of byte values, so that  *)
(* concatenation, the trailing zero byte and name comparison are computed  *)
(* as the code computes them.  SSA values are records [tag, site, n, ty].  *)
(***************************************************************************)
EXTENDS Integers, Sequences, FiniteSets, TLC

VARIABLES
  pc,                     \* position in TFKernelToLLVMPass::runOnOperation
  passFailed,             \* set by signalPassFailure()
  blob_annotation_,       \* pass option, TFKernelToLLVMPass::blob_annotation_
  gpu_binary_annotation_, \* the key held by the registered launch pattern
  body,                   \* the operations of the ModuleOp body, in order
  fbody,                  \* per host function, its operations, in order
  worklist,               \* launch ops the conversion still has to legalize
  diags,                  \* diagnostics and match-failure notes, in order
  m0                      \* the module and the constructor argument as
                          \* handed to the pass

vars == <<pc, passFailed, blob_annotation_, gpu_binary_annotation_, body,
          fbody, worklist, diags, m0>>

----------------------------------------------------------------------------
(* Bounds of the model *)

MaxLaunches == 2
MaxArgs == 3

----------------------------------------------------------------------------
(* Byte strings *)

\* "K", "L": device module names
s_K == <<75>>
s_L == <<76>>
\* "M": the name of a device module the module does not hold
s_M == <<77>>
\* "kern", "k2": kernel entry point names
s_kern == <<107, 101, 114, 110>>
s_k2 == <<107, 50>>
\* "f", "g": host function names
s_f == <<102>>
s_g == <<103>>
\* "_"
s_underscore == <<95>>
\* "_blob"
s_blob == <<95, 98, 108, 111, 98>>
\* "_kernel_name"
s_kernel_name == <<95, 107, 101, 114, 110, 101, 108, 95, 110, 97, 109, 101>>
\* "tfKernelGenLaunchKernel"
kTfWrapperLibaryLaunchHelperName ==
  <<116, 102, 75, 101, 114, 110, 101, 108, 71, 101, 110, 76, 97, 117, 110,
    99, 104, 75, 101, 114, 110, 101, 108>>

\* payloads of the blob annotations of K and L
blob_K == <<171>>
blob_L == <<205, 0>>

\* default of the blob-annotation pass option (kernel_gen_passes.h.inc)
kDefaultBlobAnnotation == "gpu.binary_blob"

\* number of launch configuration operands (grid x/y/z, block x/y/z)
kNumConfigOperands == 6

----------------------------------------------------------------------------
(* SSA values and operations *)

Value(tag, site, n, ty) == [tag |-> tag, site |-> site, n |-> n, ty |-> ty]

NoValue == Value("none", 0, 0, "none")

\* An operation.  result is NoValue when the op has no result; attr is an
\* integer attribute, name a symbol name or symbol reference, value a string
\* attribute value, key the name of the string attribute a gpu.module carries,
\* types the element types of an allocated struct, region the operations
\* nested in a gpu.module, id the identity of an op the input module holds.
Op(kind, result, operands, attr, name, value, key, types) ==
  [kind |-> kind, result |-> result, operands |-> operands, attr |-> attr,
   name |-> name, value |-> value, key |-> key, types |-> types,
   id |-> 0, module |-> <<>>, numAsync |-> 0, region |-> <<>>]

\* gpu.launch_func: operands are asyncDependencies ++ six dimensions ++ kernel
\* operands; result is the async token, if any.
LaunchFuncOp(id, module, kernel, asyncDeps, token, dims, kernelOperands) ==
  [kind |-> "gpu.launch_func", result |-> token,
   operands |-> asyncDeps \o dims \o kernelOperands, attr |-> 0,
   name |-> kernel, value |-> <<>>, key |-> "", types |-> <<>>,
   id |-> id, module |-> module, numAsync |-> Len(asyncDeps),
   region |-> <<>>]

GPUModuleOp(name, key, value, region) ==
  [Op("gpu.module", NoValue, <<>>, 0, name, value, key, <<>>)
     EXCEPT !.region = region]

\* the operations inside a gpu.module: its kernels and its terminator
GPUFuncOp(id, name) ==
  [Op("gpu.func", NoValue, <<>>, 0, name, <<>>, "", <<>>) EXCEPT !.id = id]

ModuleEndOp(id) ==
  [Op("gpu.module_end", NoValue, <<>>, 0, <<>>, <<>>, "", <<>>) EXCEPT !.id = id]

LLVMFuncOp(name) == Op("llvm.func", NoValue, <<>>, 0, name, <<>>, "", <<>>)

GlobalOp(name, value) ==
  Op("llvm.mlir.global", NoValue, <<>>, 0, name, value, "", <<>>)

ReturnOp == Op("llvm.return", NoValue, <<>>, 0, <<>>, <<>>, "", <<>>)

----------------------------------------------------------------------------
(* Sequence helpers *)

take_back(s, n) == SubSeq(s, Len(s) - n + 1, Len(s))

InsertAtStart(s, op) == <<op>> \o s

\* indices of s whose element satisfies kind = k
IndicesOfKind(s, k) == {i \in 1..Len(s) : s[i].kind = k}

\* mutant: nothing is removed
RemoveAt_none(s, i) == s

RemoveAt(s, i) == SubSeq(s, 1, i - 1) \o SubSeq(s, i + 1, Len(s))

----------------------------------------------------------------------------
(* Created operations.  The operations a pattern application creates at the
   insertion point (in front of the launch op) are numbered in creation order;
   the result of the n-th one at launch site `site` is Res(site, n, ty).
   Each emitting operator is given n0, the number of operations the
   application created before it. *)

Res(site, n, ty) == Value("res", site, n, ty)

LLVMOp(kind, result, operands, attr, name, types) ==
  Op(kind, result, operands, attr, name, <<>>, "", types)

RECURSIVE Flatten(_)
Flatten(ss) == IF ss = <<>> THEN <<>> ELSE Head(ss) \o Flatten(Tail(ss))

\* LLVMTypeConverter::convertType on the types the model uses
convertType(ty) ==
  CASE ty = "index" -> "i64"
    [] ty = "f32" -> "float"
    [] ty = "memref<f32>" -> "struct<(ptr<float>, ptr<float>, i64)>"
    [] OTHER -> ty

\* the operand as the conversion hands it to the pattern (ArrayRef<Value>
\* operands): the same value with its converted type
Remapped(v) == [v EXCEPT !.ty = convertType(v.ty)]

IsMemRef(v) == v.ty = "memref<f32>"

\* MemRefDescriptor::unpack for a rank-0 memref: allocated pointer, aligned
\* pointer and offset are extracted from the descriptor, in this order.
unpackVals(site, n0) ==
  <<Res(site, n0 + 1, "ptr<float>"), Res(site, n0 + 2, "ptr<float>"),
    Res(site, n0 + 3, "i64")>>

unpack(site, n0, packed) ==
  [k \in 1..3 |->
     LLVMOp("llvm.extractvalue", unpackVals(site, n0)[k], <<packed>>, k - 1,
            <<>>, <<>>)]

\* number of operations promoteOperands created for the operands before the
\* i-th one
UnpackedBefore(opOperands, i) ==
  3 * Cardinality({j \in 1..(i - 1) : IsMemRef(opOperands[j])})

\* LLVMTypeConverter::promoteOperands (default calling convention): a memref
\* operand is replaced by the fields of its descriptor, any other operand is
\* passed as converted.  The operations it creates, then the values it returns.
promoteOperandsOps(site, n0, opOperands, operands) ==
  Flatten([i \in 1..Len(operands) |->
             IF IsMemRef(opOperands[i])
             THEN unpack(site, n0 + UnpackedBefore(opOperands, i), operands[i])
             ELSE <<>>])

promoteOperands(site, n0, opOperands, operands) ==
  Flatten([i \in 1..Len(operands) |->
             IF IsMemRef(opOperands[i])
             THEN unpackVals(site, n0 + UnpackedBefore(opOperands, i))
             ELSE <<operands[i]>>])

----------------------------------------------------------------------------
(* gpu::LaunchFuncOp accessors *)

asyncDependencies(launch_op) == SubSeq(launch_op.operands, 1, launch_op.numAsync)

asyncToken(launch_op) == launch_op.result

\* mutant: every operand of the launch op counts as a kernel operand
getNumKernelOperands_all(launch_op) == Len(launch_op.operands)

getNumKernelOperands(launch_op) ==
  Len(launch_op.operands) - launch_op.numAsync - kNumConfigOperands

getKernelModuleName(launch_op) == launch_op.module

getKernelName(launch_op) == launch_op.name

\* gpu::LaunchFuncOpAdaptor: the k-th launch dimension (1 = gridSizeX, ...,
\* 6 = blockSizeZ) among the converted operands
adaptorDim(operands, launch_op, k) == operands[launch_op.numAsync + k]

----------------------------------------------------------------------------
(* generateParamsArray *)

\* the five operations in front of the loop, created after m earlier ones:
\* one, struct_ptr, array_size, array_ptr, zero
StructPtr(site, m) == Res(site, m + 2, "ptr<struct>")

ArrayPtr(site, m) == Res(site, m + 4, "ptr<ptr<i8>>")

\* mutant: the array is allocated with at least one element
AllocaOps_atLeastOne(site, m, argument_types) ==
  <<LLVMOp("llvm.mlir.constant", Res(site, m + 1, "i32"), <<>>, 1, <<>>, <<>>),
    LLVMOp("llvm.alloca", StructPtr(site, m), <<Res(site, m + 1, "i32")>>, 0,
           <<>>, argument_types),
    LLVMOp("llvm.mlir.constant", Res(site, m + 3, "i32"), <<>>,
           IF argument_types = <<>> THEN 1 ELSE Len(argument_types), <<>>, <<>>),
    LLVMOp("llvm.alloca", ArrayPtr(site, m), <<Res(site, m + 3, "i32")>>, 0,
           <<>>, <<>>),
    LLVMOp("llvm.mlir.constant", Res(site, m + 5, "i32"), <<>>, 0, <<>>, <<>>)>>

AllocaOps(site, m, argument_types) ==
  <<LLVMOp("llvm.mlir.constant", Res(site, m + 1, "i32"), <<>>, 1, <<>>, <<>>),
    LLVMOp("llvm.alloca", StructPtr(site, m), <<Res(site, m + 1, "i32")>>, 0,
           <<>>, argument_types),
    LLVMOp("llvm.mlir.constant", Res(site, m + 3, "i32"), <<>>,
           Len(argument_types), <<>>, <<>>),
    LLVMOp("llvm.alloca", ArrayPtr(site, m), <<Res(site, m + 3, "i32")>>, 0,
           <<>>, <<>>),
    LLVMOp("llvm.mlir.constant", Res(site, m + 5, "i32"), <<>>, 0, <<>>, <<>>)>>

\* mutant: every field pointer is stored into slot 0 of the array
StoreArgument_slotZero(site, m, b, argument, index) ==
  <<LLVMOp("llvm.mlir.constant", Res(site, b + 1, "i32"), <<>>, index, <<>>,
           <<>>),
    LLVMOp("llvm.getelementptr", Res(site, b + 2, "ptr<field>"),
           <<StructPtr(site, m), Res(site, m + 5, "i32"),
             Res(site, b + 1, "i32")>>, 0, <<>>, <<argument.ty>>),
    LLVMOp("llvm.store", NoValue, <<argument, Res(site, b + 2, "ptr<field>")>>,
           0, <<>>, <<>>),
    LLVMOp("llvm.getelementptr", Res(site, b + 4, "ptr<ptr<i8>>"),
           <<ArrayPtr(site, m), Res(site, m + 5, "i32")>>, 0, <<>>, <<>>),
    LLVMOp("llvm.bitcast", Res(site, b + 5, "ptr<i8>"),
           <<Res(site, b + 2, "ptr<field>")>>, 0, <<>>, <<>>),
    LLVMOp("llvm.store", NoValue,
           <<Res(site, b + 5, "ptr<i8>"), Res(site, b + 4, "ptr<ptr<i8>>")>>,
           0, <<>>, <<>>)>>

\* one iteration of the loop, for the argument at en.index() = index, created
\* after b earlier operations: index, field_ptr, store, element_ptr, casted,
\* store
StoreArgument(site, m, b, argument, index) ==
  <<LLVMOp("llvm.mlir.constant", Res(site, b + 1, "i32"), <<>>, index, <<>>,
           <<>>),
    LLVMOp("llvm.getelementptr", Res(site, b + 2, "ptr<field>"),
           <<StructPtr(site, m), Res(site, m + 5, "i32"),
             Res(site, b + 1, "i32")>>, 0, <<>>, <<argument.ty>>),
    LLVMOp("llvm.store", NoValue, <<argument, Res(site, b + 2, "ptr<field>")>>,
           0, <<>>, <<>>),
    LLVMOp("llvm.getelementptr", Res(site, b + 4, "ptr<ptr<i8>>"),
           <<ArrayPtr(site, m), Res(site, b + 1, "i32")>>, 0, <<>>, <<>>),
    LLVMOp("llvm.bitcast", Res(site, b + 5, "ptr<i8>"),
           <<Res(site, b + 2, "ptr<field>")>>, 0, <<>>, <<>>),
    LLVMOp("llvm.store", NoValue,
           <<Res(site, b + 5, "ptr<i8>"), Res(site, b + 4, "ptr<ptr<i8>>")>>,
           0, <<>>, <<>>)>>

StoreArguments(site, m, arguments) ==
  Flatten([i \in 1..Len(arguments) |->
             StoreArgument(site, m, m + 5 + 6 * (i - 1), arguments[i], i - 1)])

\* the kernel operands of the launch op, as written and as converted
KernelOperands(launch_op) ==
  take_back(launch_op.operands, getNumKernelOperands(launch_op))

ConvertedKernelOperands(launch_op, operands) ==
  take_back(operands, getNumKernelOperands(launch_op))

\* the promoted arguments of the launch
Arguments(launch_op, operands, site, n0) ==
  promoteOperands(site, n0, KernelOperands(launch_op),
                  ConvertedKernelOperands(launch_op, operands))

\* number of operations created before the first alloca constant
BeforeAllocas(launch_op, n0) ==
  n0 + UnpackedBefore(KernelOperands(launch_op),
                      getNumKernelOperands(launch_op) + 1)

\* the operations generateParamsArray creates
generateParamsArrayOps(launch_op, operands, site, n0) ==
  promoteOperandsOps(site, n0, KernelOperands(launch_op),
                     ConvertedKernelOperands(launch_op, operands))
    \o AllocaOps(site, BeforeAllocas(launch_op, n0),
                 [i \in 1..Len(Arguments(launch_op, operands, site, n0)) |->
                    Arguments(launch_op, operands, site, n0)[i].ty])
    \o StoreArguments(site, BeforeAllocas(launch_op, n0),
                      Arguments(launch_op, operands, site, n0))

\* the value generateParamsArray returns: array_ptr
generateParamsArray(launch_op, site, n0) ==
  ArrayPtr(site, BeforeAllocas(launch_op, n0))

----------------------------------------------------------------------------
(* Symbols and global strings *)

NullOp == Op("null", NoValue, <<>>, 0, <<>>, <<>>, "", <<>>)

\* SymbolTable::lookupSymbolIn: the first operation of the module body that
\* carries the symbol name, or null
lookupSymbolIn(moduleBody, name) ==
  LET hits == {i \in 1..Len(moduleBody) : moduleBody[i].name = name}
  IN  IF hits = {} THEN NullOp
      ELSE moduleBody[CHOOSE i \in hits : \A j \in hits : i <= j]

\* SymbolTable::lookupNearestSymbolFrom<OpTy>: the symbol, if it is an OpTy
lookupNearestSymbolFrom(kind, moduleBody, name) ==
  IF lookupSymbolIn(moduleBody, name).kind = kind
  THEN lookupSymbolIn(moduleBody, name) ELSE NullOp

\* mutant: any string attribute of the gpu module is taken
hasStringAttr_anyKey(op, key) == op.kind = "gpu.module"

\* Operation::getAttrOfType<StringAttr>(key)
hasStringAttr(op, key) == op.kind = "gpu.module" /\ op.key = key

\* mutant: the payload is taken as a C string, up to its first zero byte
getValue_cstr(kernel_module) ==
  LET v == kernel_module.value
      z == {i \in 1..Len(v) : v[i] = 0}
  IN  IF z = {} THEN v
      ELSE SubSeq(v, 1, (CHOOSE i \in z : \A j \in z : i <= j) - 1)

\* binary_attr.getValue(): the bytes of the string attribute, all of them
getValue(kernel_module) == kernel_module.value

\* LLVM::createGlobalString creates a global at the start of the module body
createGlobalString(moduleBody, name, value) ==
  InsertAtStart(moduleBody, GlobalOp(name, value))

\* ... and, at the insertion point, addressof, constant 0 and a gep to the
\* first character, whose result it returns
GlobalStringPtr(site, n0) == Res(site, n0 + 3, "ptr<i8>")

createGlobalStringOps(site, n0, name) ==
  <<LLVMOp("llvm.mlir.addressof", Res(site, n0 + 1, "ptr<array<i8>>"), <<>>,
           0, name, <<>>),
    LLVMOp("llvm.mlir.constant", Res(site, n0 + 2, "i64"), <<>>, 0, <<>>,
           <<>>),
    LLVMOp("llvm.getelementptr", GlobalStringPtr(site, n0),
           <<Res(site, n0 + 1, "ptr<array<i8>>"), Res(site, n0 + 2, "i64"),
             Res(site, n0 + 2, "i64")>>, 0, <<>>, <<>>)>>

\* mutant: the root op is left in place
eraseOp_skipped(launch_op) == FALSE

\* rewriter.eraseOp(launch_op): the root op is erased
eraseOp(launch_op) == TRUE

----------------------------------------------------------------------------
(* Diagnostics *)

\* rewriter.notifyMatchFailure(launch_op, ...)
MatchFailure(launch_op) ==
  [kind |-> "matchFailure", on |-> <<>>, id |-> launch_op.id, key |-> ""]

\* kernel_module.emitOpError() << "missing " << key << " attribute"
MissingAttribute(kernel_module, key) ==
  [kind |-> "opError", on |-> kernel_module.name, id |-> 0, key |-> key]

----------------------------------------------------------------------------
(* ConvertLaunchFuncOpToTfRuntimeCallPattern::matchAndRewrite *)

\* names of the two globals
BlobGlobalName(kernel_module) == kernel_module.name \o s_blob

KernelNameGlobalName(kernel_module, kernel_name) ==
  kernel_module.name \o s_underscore \o kernel_name \o s_kernel_name

\* mutant: the trailing zero is not pushed back
KernelNameBuffer_noZero(kernel_name) == kernel_name

\* kernel_name_buffer: the kernel name with the trailing zero pushed back
KernelNameBuffer(kernel_name) == Append(kernel_name, 0)

\* mutant: only the async token is tested
IsAsync_tokenOnly(launch_op) == asyncToken(launch_op) # NoValue

\* the condition of the first early return
IsAsync(launch_op) ==
  asyncDependencies(launch_op) # <<>> \/ asyncToken(launch_op) # NoValue

\* the first argument of the surrounding LLVMFunc
getArgument0(parentFunc) == Value("arg", parentFunc, 0, "ptr<i8>")

\* mutant: the helper is declared without looking it up
EnsureLaunchHelper_noLookup(moduleBody) ==
  InsertAtStart(moduleBody, LLVMFuncOp(kTfWrapperLibaryLaunchHelperName))

\* lookup of the launch helper, declared at the start of the module body when
\* it is absent (the insertion guard restores the insertion point)
EnsureLaunchHelper(moduleBody) ==
  IF lookupNearestSymbolFrom("llvm.func", moduleBody,
                             kTfWrapperLibaryLaunchHelperName) = NullOp
  THEN InsertAtStart(moduleBody, LLVMFuncOp(kTfWrapperLibaryLaunchHelperName))
  ELSE moduleBody

\* mutant: grid and block sizes are passed in each other's place
CallOperands_blockFirst(context_arg, module_blob, name_global, operands, launch_op, params) ==
  <<context_arg, module_blob, name_global,
    adaptorDim(operands, launch_op, 4), adaptorDim(operands, launch_op, 5),
    adaptorDim(operands, launch_op, 6), adaptorDim(operands, launch_op, 1),
    adaptorDim(operands, launch_op, 2), adaptorDim(operands, launch_op, 3),
    params>>

\* the ten operands of the emitted call
CallOperands(context_arg, module_blob, name_global, operands, launch_op, params) ==
  <<context_arg, module_blob, name_global,
    adaptorDim(operands, launch_op, 1), adaptorDim(operands, launch_op, 2),
    adaptorDim(operands, launch_op, 3), adaptorDim(operands, launch_op, 4),
    adaptorDim(operands, launch_op, 5), adaptorDim(operands, launch_op, 6),
    params>>

\* mutant: the lookup takes the first gpu module, whatever its name
KernelModule_first(launch_op, moduleBody) ==
  IF IndicesOfKind(moduleBody, "gpu.module") = {} THEN NullOp
  ELSE moduleBody[CHOOSE i \in IndicesOfKind(moduleBody, "gpu.module") :
                    \A j \in IndicesOfKind(moduleBody, "gpu.module") : i <= j]

\* the kernel module the launch op names
KernelModule(launch_op, moduleBody) ==
  lookupNearestSymbolFrom("gpu.module", moduleBody,
                          getKernelModuleName(launch_op))

\* mutant: the insertion point stays where the helper was declared
InsertionPointAfterDeclaration_notRestored(moduleBody) ==
  IF lookupNearestSymbolFrom("llvm.func", moduleBody,
                             kTfWrapperLibaryLaunchHelperName) = NullOp
  THEN "module" ELSE "launch"

\* where the call is created: the InsertionGuard of the declaring block puts
\* the insertion point back in front of the launch op when the block is left
InsertionPointAfterDeclaration(moduleBody) == "launch"

\* the call of the launch helper
CallOp(launch_op, operands, site, parentFunc) ==
  LLVMOp("llvm.call", NoValue,
         CallOperands(getArgument0(parentFunc),
                      GlobalStringPtr(site, 0), GlobalStringPtr(site, 3),
                      operands, launch_op,
                      generateParamsArray(launch_op, site, 6)),
         0, kTfWrapperLibaryLaunchHelperName, <<>>)

\* the module body after the two globals
BodyWithGlobals(kernel_module, launch_op, moduleBody) ==
  createGlobalString(
    createGlobalString(moduleBody, BlobGlobalName(kernel_module),
                       getValue(kernel_module)),
    KernelNameGlobalName(kernel_module, getKernelName(launch_op)),
    KernelNameBuffer(getKernelName(launch_op)))

\* the module body after the two globals and the helper declaration; a call
\* created at the module-level insertion point follows the declaration
RewrittenBody(kernel_module, launch_op, operands, site, parentFunc, moduleBody) ==
  IF InsertionPointAfterDeclaration(
       BodyWithGlobals(kernel_module, launch_op, moduleBody)) = "module"
  THEN <<LLVMFuncOp(kTfWrapperLibaryLaunchHelperName),
         CallOp(launch_op, operands, site, parentFunc)>>
         \o BodyWithGlobals(kernel_module, launch_op, moduleBody)
  ELSE EnsureLaunchHelper(BodyWithGlobals(kernel_module, launch_op, moduleBody))

\* the operations created in front of the launch op: the pointers to the two
\* globals (3 operations each), the parameter array, the call
RewrittenOps(kernel_module, launch_op, operands, site, parentFunc, moduleBody) ==
  createGlobalStringOps(site, 0, BlobGlobalName(kernel_module))
    \o createGlobalStringOps(site, 3,
         KernelNameGlobalName(kernel_module, getKernelName(launch_op)))
    \o generateParamsArrayOps(launch_op, operands, site, 6)
    \o (IF InsertionPointAfterDeclaration(
              BodyWithGlobals(kernel_module, launch_op, moduleBody)) = "launch"
        THEN <<CallOp(launch_op, operands, site, parentFunc)>>
        ELSE <<>>)

\* mutant: the global for the kernel name is created before the blob
\* annotation is looked at
RewriteWithModule_nameFirst(kernel_module, launch_op, operands, site, parentFunc, moduleBody, annotation) ==
  IF ~hasStringAttr(kernel_module, annotation)
  THEN [result |-> "failure",
        ops |-> createGlobalStringOps(site, 0,
                  KernelNameGlobalName(kernel_module, getKernelName(launch_op))),
        body |-> createGlobalString(moduleBody,
                   KernelNameGlobalName(kernel_module, getKernelName(launch_op)),
                   KernelNameBuffer(getKernelName(launch_op))),
        erased |-> FALSE,
        diags |-> <<MissingAttribute(kernel_module, annotation)>>]
  ELSE [result |-> "success",
        ops |-> RewrittenOps(kernel_module, launch_op, operands, site,
                             parentFunc, moduleBody),
        body |-> RewrittenBody(kernel_module, launch_op, operands, site,
                               parentFunc, moduleBody),
        erased |-> eraseOp(launch_op),
        diags |-> <<>>]

\* lines 154-223, with the kernel module the lookup produced: ops are the
\* operations created in front of the launch op, body the module body, erased
\* whether the launch op is gone
RewriteWithModule(kernel_module, launch_op, operands, site, parentFunc, moduleBody, annotation) ==
  IF ~hasStringAttr(kernel_module, annotation)
  THEN [result |-> "failure", ops |-> <<>>, body |-> moduleBody,
        erased |-> FALSE,
        diags |-> <<MissingAttribute(kernel_module, annotation)>>]
  ELSE [result |-> "success",
        ops |-> RewrittenOps(kernel_module, launch_op, operands, site,
                             parentFunc, moduleBody),
        body |-> RewrittenBody(kernel_module, launch_op, operands, site,
                               parentFunc, moduleBody),
        erased |-> eraseOp(launch_op),
        diags |-> <<>>]

\* the result of one application; "assert" when the kernel module is null at
\* assert(kernel_module)
matchAndRewrite(launch_op, operands, site, parentFunc, moduleBody, annotation) ==
  IF IsAsync(launch_op)
  THEN [result |-> "failure", ops |-> <<>>, body |-> moduleBody,
        erased |-> FALSE, diags |-> <<MatchFailure(launch_op)>>]
  ELSE IF KernelModule(launch_op, moduleBody) = NullOp
  THEN [result |-> "assert", ops |-> <<>>, body |-> moduleBody,
        erased |-> FALSE, diags |-> <<>>]
  ELSE RewriteWithModule(KernelModule(launch_op, moduleBody), launch_op,
                         operands, site, parentFunc, moduleBody, annotation)

----------------------------------------------------------------------------
(* The module handed to the pass *)

FuncName(fi) == IF fi = 1 THEN s_f ELSE s_g

HostFuncs == {1, 2}

\* (device module, entry point) pairs a launch may name
Targets == {<<s_K, s_kern>>, <<s_K, s_k2>>, <<s_L, s_kern>>}

\* number of async dependencies and presence of an async token
AsyncForms == {<<0, FALSE>>, <<1, FALSE>>, <<0, TRUE>>}

\* types of the kernel operands, fixed by the signature of the entry point
KernelSignature(target) ==
  CASE target = <<s_K, s_kern>> -> <<"f32", "memref<f32>">>
    [] target = <<s_K, s_k2>> -> <<>>
    [] OTHER -> <<"memref<f32>", "f32">>

\* every target launched synchronously, K::kern also in the async forms
LaunchForms ==
  {[target |-> t, async |-> <<0, FALSE>>] : t \in Targets}
    \cup {[target |-> <<s_K, s_kern>>, async |-> a] : a \in AsyncForms}

\* the blob_annotation constructor argument, with the keys of the string
\* attribute carried by K and by L
Configurations ==
  {[ann |-> "binary", keys |-> <<"binary", "binary">>],
   [ann |-> "binary", keys |-> <<kDefaultBlobAnnotation, "binary">>],
   [ann |-> "", keys |-> <<kDefaultBlobAnnotation, kDefaultBlobAnnotation>>],
   [ann |-> "", keys |-> <<kDefaultBlobAnnotation, "binary">>]}

\* the kernel operands of launch id, of the types of the signature
SignatureOperands(id, target) ==
  [j \in 1..Len(KernelSignature(target)) |->
     Value("val", id, 10 + j, KernelSignature(target)[j])]

MakeLaunch(id, form, kernelOperands) ==
  LaunchFuncOp(id, form.target[1], form.target[2],
               [j \in 1..form.async[1] |->
                  Value("val", id, 20 + j, "!gpu.async.token")],
               IF form.async[2]
               THEN Value("token", id, 0, "!gpu.async.token") ELSE NoValue,
               [k \in 1..kNumConfigOperands |-> Value("val", id, k, "index")],
               kernelOperands)

\* launch i lives in host function f when i is odd, in g when i is even;
\* every host function ends with a return
HostBody(launches, fi) ==
  SelectSeq(launches, LAMBDA l : ((l.id - 1) % 2) + 1 = fi) \o <<ReturnOp>>

\* the interior of the mi-th device module, holding the given kernels
DeviceRegion(mi, kernels) ==
  [k \in 1..Len(kernels) |-> GPUFuncOp(100 * mi + k, kernels[k])]
    \o <<ModuleEndOp(100 * mi + Len(kernels) + 1)>>

\* mutant: the constructor argument is taken as it is
TFKernelToLLVMPass_verbatim(blob_annotation) == blob_annotation

\* explicit TFKernelToLLVMPass(StringRef blob_annotation)
TFKernelToLLVMPass(blob_annotation) ==
  IF blob_annotation # "" THEN blob_annotation ELSE kDefaultBlobAnnotation

Init ==
  \E cfg \in Configurations, declared \in BOOLEAN, n \in 1..MaxLaunches :
    \E forms \in [1..n -> LaunchForms] :
      LET launches == [i \in 1..n |->
                          MakeLaunch(i, forms[i],
                                     SignatureOperands(i, forms[i].target))]
          b == (IF declared
                THEN <<LLVMFuncOp(kTfWrapperLibaryLaunchHelperName)>>
                ELSE <<>>)
               \o <<LLVMFuncOp(s_f), LLVMFuncOp(s_g),
                    GPUModuleOp(s_K, cfg.keys[1], blob_K,
                                DeviceRegion(1, <<s_kern, s_k2>>)),
                    GPUModuleOp(s_L, cfg.keys[2], blob_L,
                                DeviceRegion(2, <<s_kern>>))>>
          fb == [fi \in HostFuncs |-> HostBody(launches, fi)]
      IN  /\ pc = "Configuring"
          /\ passFailed = FALSE
          /\ blob_annotation_ = TFKernelToLLVMPass(cfg.ann)
          /\ gpu_binary_annotation_ = ""
          /\ body = b
          /\ fbody = fb
          /\ worklist = {}
          /\ diags = <<>>
          /\ m0 = [body |-> b, fbody |-> fb, blob_annotation |-> cfg.ann]

----------------------------------------------------------------------------
(* TFKernelToLLVMPass::runOnOperation *)

LaunchIds(fb) ==
  UNION {{fb[fi][k].id : k \in IndicesOfKind(fb[fi], "gpu.launch_func")} :
           fi \in HostFuncs}

\* host function and position of the launch op with the given id
FuncOf(fb, id) ==
  CHOOSE fi \in HostFuncs :
    \E k \in IndicesOfKind(fb[fi], "gpu.launch_func") : fb[fi][k].id = id

PosOf(fb, id) ==
  CHOOSE k \in IndicesOfKind(fb[FuncOf(fb, id)], "gpu.launch_func") :
    fb[FuncOf(fb, id)][k].id = id

\* mutant: the created operations are appended to the block
Splice_atEnd(ops, k, r) ==
  SubSeq(ops, 1, k - 1)
    \o (IF r.erased THEN <<>> ELSE <<ops[k]>>)
    \o SubSeq(ops, k + 1, Len(ops)) \o r.ops

\* the created operations go in front of the root op, which is dropped when
\* the pattern erased it
Splice(ops, k, r) ==
  SubSeq(ops, 1, k - 1) \o r.ops
    \o (IF r.erased THEN <<>> ELSE <<ops[k]>>)
    \o SubSeq(ops, k + 1, Len(ops))

\* mutant: the result of the conversion is not looked at
failed_never(result) == FALSE

\* failed(applyFullConversion(...))
failed(result) == result = "failure"

\* what the conversion leaves behind when it fails, of the module as the
\* failing application left it: the rewrites as applied, the rewrites the
\* rewriter tracked undone (the globals stay), or all undone
DiscardModes == {"none", "tracked", "all"}

DiscardedBody(mode, moduleBody) ==
  CASE mode = "none" -> moduleBody
    [] mode = "tracked" ->
         SelectSeq(moduleBody, LAMBDA op :
           op.kind # "llvm.func" \/ \E i \in 1..Len(m0.body) : m0.body[i] = op)
    [] OTHER -> m0.body

DiscardedFuncs(mode, fb) == IF mode = "none" THEN fb ELSE m0.fbody

\* the conversion target
Dialect(op) ==
  IF op.kind \in {"gpu.launch_func", "gpu.module", "gpu.func", "gpu.module_end"}
  THEN "gpu" ELSE "llvm"

LegalDialects == {"llvm"}

IllegalDialects == {"gpu", "std", "tf_framework"}

IllegalOps == {"llvm.mlir.cast"}

LegalOps == {"module", "module_terminator", "gpu.module"}

\* ConversionTarget::isLegal: an action set for the op takes precedence over
\* the action set for its dialect
isLegal(op) ==
  IF op.kind \in LegalOps THEN TRUE
  ELSE IF op.kind \in IllegalOps THEN FALSE
  ELSE Dialect(op) \in LegalDialects /\ Dialect(op) \notin IllegalDialects

\* mutant: gpu modules are legal, but not recursively
isRecursivelyLegal_none(op) == FALSE

\* markOpRecursivelyLegal<gpu::GPUModuleOp>()
isRecursivelyLegal(op) == isLegal(op) /\ op.kind = "gpu.module"

\* the operations the conversion has to legalize: the walk over the module
\* takes every illegal operation and does not enter a recursively legal one
OpsToConvert(moduleBody, fb) ==
  UNION {{fb[fi][k].id : k \in {k \in 1..Len(fb[fi]) : ~isLegal(fb[fi][k])}} :
           fi \in HostFuncs}
    \cup UNION {{moduleBody[i].region[k].id :
                   k \in {k \in 1..Len(moduleBody[i].region) :
                            /\ ~isRecursivelyLegal(moduleBody[i])
                            /\ ~isLegal(moduleBody[i].region[k])}} :
                  i \in 1..Len(moduleBody)}

\* population of the type conversion, the patterns and the target; the
\* conversion collects the operations to legalize
Configure ==
  /\ pc = "Configuring"
  /\ pc' = "Converting"
  /\ gpu_binary_annotation_' = blob_annotation_
  /\ worklist' = OpsToConvert(body, fbody)
  /\ UNCHANGED <<passFailed, blob_annotation_, body, fbody, diags, m0>>

\* the launch op with the given id, and its converted operands
LaunchOp(id) == fbody[FuncOf(fbody, id)][PosOf(fbody, id)]

RemappedOperands(launch_op) ==
  [i \in 1..Len(launch_op.operands) |-> Remapped(launch_op.operands[i])]

Attempt(id) ==
  matchAndRewrite(LaunchOp(id), RemappedOperands(LaunchOp(id)), id,
                  FuncOf(fbody, id), body, gpu_binary_annotation_)

\* the conversion legalizes one launch op: the pattern applied
LegalizeLaunch(id) ==
  /\ pc = "Converting"
  /\ id \in worklist
  /\ Attempt(id).result = "success"
  /\ body' = Attempt(id).body
  /\ fbody' = [fbody EXCEPT ![FuncOf(fbody, id)] =
                 Splice(@, PosOf(fbody, id), Attempt(id))]
  /\ diags' = diags \o Attempt(id).diags
  /\ worklist' = worklist \ {id}
  /\ UNCHANGED <<pc, passFailed, blob_annotation_, gpu_binary_annotation_, m0>>

\* the pattern rejected a launch op: no other pattern applies, the conversion
\* fails and the pass signals failure
LegalizeFails(id, mode) ==
  /\ pc = "Converting"
  /\ id \in worklist
  /\ Attempt(id).result = "failure"
  /\ diags' = diags \o Attempt(id).diags
  /\ passFailed' = failed(Attempt(id).result)
  /\ body' = DiscardedBody(mode, Attempt(id).body)
  /\ fbody' = DiscardedFuncs(mode,
                 [fbody EXCEPT ![FuncOf(fbody, id)] =
                    Splice(@, PosOf(fbody, id), Attempt(id))])
  /\ pc' = "Cleaning"
  /\ UNCHANGED <<worklist, blob_annotation_, gpu_binary_annotation_, m0>>

\* every illegal op was legalized: applyFullConversion succeeds
ConversionSucceeds ==
  /\ pc = "Converting"
  /\ worklist = {}
  /\ passFailed' = failed("success")
  /\ pc' = "Cleaning"
  /\ UNCHANGED <<blob_annotation_, gpu_binary_annotation_, body, fbody,
                 worklist, diags, m0>>

\* mutant: the strip loop is skipped after a failed conversion
getGpuModuleOps_ifSucceeded(moduleBody) ==
  IF passFailed THEN {} ELSE IndicesOfKind(moduleBody, "gpu.module")

\* mutant: the strip loop finds no gpu module
getGpuModuleOps_none(moduleBody) == {}

\* m.getOps<gpu::GPUModuleOp>()
getGpuModuleOps(moduleBody) == IndicesOfKind(moduleBody, "gpu.module")

\* one iteration of the strip loop: the next gpu module is erased
EraseGpuModule ==
  /\ pc = "Cleaning"
  /\ getGpuModuleOps(body) # {}
  /\ LET i == CHOOSE i \in getGpuModuleOps(body) :
                \A j \in getGpuModuleOps(body) : i <= j
     IN  body' = RemoveAt(body, i)
  /\ UNCHANGED <<pc, passFailed, blob_annotation_, gpu_binary_annotation_,
                 fbody, worklist, diags, m0>>

\* the strip loop is over: runOnOperation returns
Finish ==
  /\ pc = "Cleaning"
  /\ getGpuModuleOps(body) = {}
  /\ pc' = "Done"
  /\ UNCHANGED <<passFailed, blob_annotation_, gpu_binary_annotation_, body,
                 fbody, worklist, diags, m0>>

Next ==
  \/ Configure
  \/ \E id \in 1..MaxLaunches : LegalizeLaunch(id)
  \/ \E id \in 1..MaxLaunches, mode \in DiscardModes : LegalizeFails(id, mode)
  \/ ConversionSucceeds
  \/ EraseGpuModule
  \/ Finish

Spec == Init /\ [][Next]_vars

----------------------------------------------------------------------------
(* The rewrite of one synchronous launch of K::kern in host function f, over
   every list of at most MaxArgs kernel operands *)

KernelOperandChoices ==
  {Value("val", 1, 10 + v, ty) : v \in 1..2, ty \in {"f32", "memref<f32>"}}

KernelOperandLists ==
  UNION {[1..n -> KernelOperandChoices] : n \in 0..MaxArgs}

InitMarshal ==
  \E kernelOperands \in KernelOperandLists :
    LET launch == MakeLaunch(1, [target |-> <<s_K, s_kern>>,
                                 async |-> <<0, FALSE>>], kernelOperands)
        b == <<LLVMFuncOp(s_f), LLVMFuncOp(s_g),
               GPUModuleOp(s_K, kDefaultBlobAnnotation, blob_K,
                           DeviceRegion(1, <<s_kern, s_k2>>))>>
        fb == [fi \in HostFuncs |-> HostBody(<<launch>>, fi)]
    IN  /\ pc = "Configuring"
        /\ passFailed = FALSE
        /\ blob_annotation_ = TFKernelToLLVMPass("")
        /\ gpu_binary_annotation_ = ""
        /\ body = b
        /\ fbody = fb
        /\ worklist = {}
        /\ diags = <<>>
        /\ m0 = [body |-> b, fbody |-> fb, blob_annotation |-> ""]

NextMarshal ==
  \/ Configure
  \/ LegalizeLaunch(1)
  \/ ConversionSucceeds
  \/ EraseGpuModule
  \/ Finish

SpecMarshal == InitMarshal /\ [][NextMarshal]_vars

----------------------------------------------------------------------------
(* Launches of a kernel module the module does not hold.  The lookup at lines
   150-151 returns null.  With assertions enabled assert(kernel_module) aborts
   the process.  With assertions disabled (NDEBUG) line 155 reads the
   attribute through the null handle, which is undefined behaviour: the
   process traps, or the read yields arbitrary data and the rewrite goes on
   with it. *)

\* what a read through the null handle may yield as the kernel module
GarbageModules ==
  {GPUModuleOp(nm, k, v, <<>>) :
     nm \in {<<>>, s_K}, k \in {"", kDefaultBlobAnnotation},
     v \in {<<>>, blob_K}}

\* the assertion fails, or the null dereference traps
AssertionFails(id) ==
  /\ pc = "Converting"
  /\ id \in worklist
  /\ Attempt(id).result = "assert"
  /\ pc' = "Aborted"
  /\ UNCHANGED <<passFailed, blob_annotation_, gpu_binary_annotation_, body,
                 fbody, worklist, diags, m0>>

\* lines 154-223 run on what the read through the null handle yielded
UndefinedAttempt(id, g) ==
  RewriteWithModule(g, LaunchOp(id), RemappedOperands(LaunchOp(id)), id,
                    FuncOf(fbody, id), body, gpu_binary_annotation_)

UndefinedLowers(id, g) ==
  /\ pc = "Converting"
  /\ id \in worklist
  /\ Attempt(id).result = "assert"
  /\ UndefinedAttempt(id, g).result = "success"
  /\ body' = UndefinedAttempt(id, g).body
  /\ fbody' = [fbody EXCEPT ![FuncOf(fbody, id)] =
                 Splice(@, PosOf(fbody, id), UndefinedAttempt(id, g))]
  /\ diags' = diags \o UndefinedAttempt(id, g).diags
  /\ worklist' = worklist \ {id}
  /\ UNCHANGED <<pc, passFailed, blob_annotation_, gpu_binary_annotation_, m0>>

UndefinedRejects(id, g, mode) ==
  /\ pc = "Converting"
  /\ id \in worklist
  /\ Attempt(id).result = "assert"
  /\ UndefinedAttempt(id, g).result = "failure"
  /\ diags' = diags \o UndefinedAttempt(id, g).diags
  /\ passFailed' = failed(UndefinedAttempt(id, g).result)
  /\ body' = DiscardedBody(mode, UndefinedAttempt(id, g).body)
  /\ fbody' = DiscardedFuncs(mode,
                 [fbody EXCEPT ![FuncOf(fbody, id)] =
                    Splice(@, PosOf(fbody, id), UndefinedAttempt(id, g))])
  /\ pc' = "Cleaning"
  /\ UNCHANGED <<worklist, blob_annotation_, gpu_binary_annotation_, m0>>

\* launches of K::kern, synchronous or with an async dependency, and
\* synchronous launches of M::kern, in a module that holds K only
UnresolvedForms ==
  {[target |-> <<s_K, s_kern>>, async |-> <<0, FALSE>>],
   [target |-> <<s_K, s_kern>>, async |-> <<1, FALSE>>],
   [target |-> <<s_M, s_kern>>, async |-> <<0, FALSE>>]}

InitUnresolved ==
  \E declared \in BOOLEAN, n \in 1..MaxLaunches :
    \E forms \in [1..n -> UnresolvedForms] :
      LET launches == [i \in 1..n |->
                          MakeLaunch(i, forms[i],
                                     SignatureOperands(i, forms[i].target))]
          b == (IF declared
                THEN <<LLVMFuncOp(kTfWrapperLibaryLaunchHelperName)>>
                ELSE <<>>)
               \o <<LLVMFuncOp(s_f), LLVMFuncOp(s_g),
                    GPUModuleOp(s_K, kDefaultBlobAnnotation, blob_K,
                                DeviceRegion(1, <<s_kern, s_k2>>))>>
          fb == [fi \in HostFuncs |-> HostBody(launches, fi)]
      IN  /\ pc = "Configuring"
          /\ passFailed = FALSE
          /\ blob_annotation_ = TFKernelToLLVMPass("")
          /\ gpu_binary_annotation_ = ""
          /\ body = b
          /\ fbody = fb
          /\ worklist = {}
          /\ diags = <<>>
          /\ m0 = [body |-> b, fbody |-> fb, blob_annotation |-> ""]

NextUnresolved ==
  \/ Next
  \/ \E id \in 1..MaxLaunches : AssertionFails(id)
  \/ \E id \in 1..MaxLaunches, g \in GarbageModules : UndefinedLowers(id, g)
  \/ \E id \in 1..MaxLaunches, g \in GarbageModules, mode \in DiscardModes :
       UndefinedRejects(id, g, mode)

SpecUnresolved == InitUnresolved /\ [][NextUnresolved]_vars

----------------------------------------------------------------------------
(* Every module above, with progress: runOnOperation runs synchronously on one
   thread, so the conversion and the strip loop take their next step whenever
   there is one *)

InitLive == Init \/ InitUnresolved

\* applyFullConversion is one call: while operations are left to legalize it
\* does not idle. Each of its steps is a Next step on one of these operations,
\* so this is weak fairness of the legalization steps, with their enabling
\* condition written out
Legalizing == pc = "Converting" /\ worklist # {}

ConversionRuns == <>[]Legalizing => []<><<Legalizing>>_vars

Progress ==
  /\ WF_vars(Configure)
  /\ ConversionRuns
  /\ WF_vars(ConversionSucceeds)
  /\ WF_vars(EraseGpuModule)
  /\ WF_vars(Finish)

SpecLive == InitLive /\ [][NextUnresolved]_vars /\ Progress

----------------------------------------------------------------------------
(* Vocabulary of the properties *)

\* the launch op with the given id in the module handed to the pass
InputLaunch(id) == m0.fbody[FuncOf(m0.fbody, id)][PosOf(m0.fbody, id)]

InputLaunchIds == LaunchIds(m0.fbody)

HasAsyncMarker(l) == l.numAsync > 0 \/ l.result # NoValue

\* the device module named M in the module handed to the pass carries the
\* configured blob annotation
CarriesBlob(M) ==
  \E i \in 1..Len(m0.body) :
    /\ m0.body[i].kind = "gpu.module"
    /\ m0.body[i].name = M
    /\ m0.body[i].key = blob_annotation_

Lowerable(id) ==
  ~HasAsyncMarker(InputLaunch(id)) /\ CarriesBlob(InputLaunch(id).module)

Positions ==
  UNION {{<<fi, k>> : k \in 1..Len(fbody[fi])} : fi \in HostFuncs}

OpAt(p) == fbody[p[1]][p[2]]

CallPositions == {p \in Positions : OpAt(p).kind = "llvm.call"}

RemainingLaunches == {p \in Positions : OpAt(p).kind = "gpu.launch_func"}

\* the calls emitted for the launch op with the given id: those that pass
\* one of its operands
CallsFor(id) ==
  {p \in CallPositions :
     \E j \in 1..Len(OpAt(p).operands) :
       OpAt(p).operands[j].tag = "val" /\ OpAt(p).operands[j].site = id}

GlobalsNamed(name) ==
  {i \in 1..Len(body) : body[i].kind = "llvm.mlir.global" /\ body[i].name = name}

DeviceModulesIn(b) == {i \in 1..Len(b) : b[i].kind = "gpu.module"}

HelperDeclsIn(b) ==
  {i \in 1..Len(b) : b[i].kind = "llvm.func"
                     /\ b[i].name = kTfWrapperLibaryLaunchHelperName}

Succeeded == pc = "Done" /\ ~passFailed

\* identity of an SSA value, whatever its type
Key(v) == [tag |-> v.tag, site |-> v.site, n |-> v.n]

\* the launch op an emitted call stands for: the one whose site created the
\* values the call passes
SiteOfCall(c) ==
  CHOOSE id \in InputLaunchIds :
    \E j \in 1..Len(c.operands) :
      c.operands[j].tag = "res" /\ c.operands[j].site = id

\* the operation of ops that defines the value v
DefOp(ops, v) == ops[CHOOSE i \in 1..Len(ops) : ops[i].result = v]

IsDefined(ops, v) == v # NoValue /\ \E i \in 1..Len(ops) : ops[i].result = v

ConstOf(ops, v) == DefOp(ops, v).attr

\* the symbol a global-string pointer points into: gep(addressof @name, 0, 0)
GlobalPointee(ops, v) ==
  IF /\ IsDefined(ops, v)
     /\ DefOp(ops, v).kind = "llvm.getelementptr"
     /\ Len(DefOp(ops, v).operands) = 3
     /\ IsDefined(ops, DefOp(ops, v).operands[1])
     /\ DefOp(ops, DefOp(ops, v).operands[1]).kind = "llvm.mlir.addressof"
     /\ ConstOf(ops, DefOp(ops, v).operands[2]) = 0
     /\ ConstOf(ops, DefOp(ops, v).operands[3]) = 0
  THEN DefOp(ops, DefOp(ops, v).operands[1]).name
  ELSE <<>>

\* ptr addresses element idx of the allocation base: a gep of base with a
\* constant last index (and a zero first index, for a struct), possibly seen
\* through bitcasts
RECURSIVE PointsTo(_, _, _, _)
PointsTo(ops, ptr, base, idx) ==
  IF ~IsDefined(ops, ptr) THEN FALSE
  ELSE IF DefOp(ops, ptr).kind = "llvm.bitcast"
  THEN PointsTo(ops, DefOp(ops, ptr).operands[1], base, idx)
  ELSE /\ DefOp(ops, ptr).kind = "llvm.getelementptr"
       /\ DefOp(ops, ptr).operands[1] = base
       /\ ConstOf(ops, DefOp(ops, ptr).operands[Len(DefOp(ops, ptr).operands)])
            = idx
       /\ Len(DefOp(ops, ptr).operands) = 3
            => ConstOf(ops, DefOp(ops, ptr).operands[2]) = 0

\* the stores of ops into element idx of base, and what the last one stored
StoresTo(ops, base, idx) ==
  {i \in 1..Len(ops) :
     ops[i].kind = "llvm.store" /\ PointsTo(ops, ops[i].operands[2], base, idx)}

Content(ops, base, idx) ==
  ops[CHOOSE i \in StoresTo(ops, base, idx) :
        \A j \in StoresTo(ops, base, idx) : j <= i].operands[1]

\* what an argument value is: an operand of the launch (field -1), or field
\* `field` of the descriptor of a memref operand
Describe(ops, v) ==
  IF IsDefined(ops, v) /\ DefOp(ops, v).kind = "llvm.extractvalue"
  THEN [src |-> Key(DefOp(ops, v).operands[1]), field |-> DefOp(ops, v).attr]
  ELSE [src |-> Key(v), field |-> -1]

\* the arguments of launch l in order: each kernel operand, a memref operand
\* standing for its allocated pointer, aligned pointer and offset
ExpectedArguments(l) ==
  Flatten([j \in 1..(Len(l.operands) - l.numAsync - 6) |->
             LET v == l.operands[l.numAsync + 6 + j]
             IN  IF v.ty = "memref<f32>"
                 THEN [f \in 1..3 |-> [src |-> Key(v), field |-> f - 1]]
                 ELSE <<[src |-> Key(v), field |-> -1]>>])

\* the struct allocations of ops
StructAllocas(ops) ==
  {i \in 1..Len(ops) : ops[i].kind = "llvm.alloca" /\ ops[i].result.ty = "ptr<struct>"}

\* the payload of the blob annotation of the device module named M in the
\* module handed to the pass
InputBlob(M) ==
  m0.body[CHOOSE i \in 1..Len(m0.body) :
            m0.body[i].kind = "gpu.module" /\ m0.body[i].name = M].value

\* the launch site an operation was created at, 0 for an operation of the
\* module handed to the pass
Origin(op) ==
  IF op.result.tag = "res" THEN op.result.site
  ELSE IF \E j \in 1..Len(op.operands) : op.operands[j].tag = "res"
  THEN op.operands[CHOOSE j \in 1..Len(op.operands) :
                     op.operands[j].tag = "res"].site
  ELSE 0

\* a block as a sequence of marks: <<id, _>> stands for launch id (the launch
\* op itself in the input, an operation created for it in the output)
InputShape(ops) ==
  [i \in 1..Len(ops) |->
     IF ops[i].kind = "gpu.launch_func" THEN <<ops[i].id, ReturnOp>>
     ELSE <<0, ops[i]>>]

OutputShape(ops) ==
  [i \in 1..Len(ops) |->
     IF Origin(ops[i]) # 0 THEN <<Origin(ops[i]), ReturnOp>>
     ELSE <<0, ops[i]>>]

\* runs of equal launch marks become one mark
RECURSIVE Collapse(_)
Collapse(marks) ==
  IF Len(marks) <= 1 THEN marks
  ELSE IF marks[1][1] # 0 /\ marks[1] = marks[2] THEN Collapse(Tail(marks))
  ELSE <<Head(marks)>> \o Collapse(Tail(marks))

CallsIn(fb) ==
  UNION {{<<fi, k>> : k \in IndicesOfKind(fb[fi], "llvm.call")} : fi \in HostFuncs}

LaunchesIn(fb) ==
  UNION {{<<fi, k>> : k \in IndicesOfKind(fb[fi], "gpu.launch_func")} :
           fi \in HostFuncs}

\* the leading operands of launch l: async dependencies and dimensions
LeadingOperands(l) == {Key(l.operands[j]) : j \in 1..(l.numAsync + 6)}

\* the field types the arguments of launch l call for, in order
ExpectedTypes(l) ==
  Flatten([j \in 1..(Len(l.operands) - l.numAsync - 6) |->
             LET ty == l.operands[l.numAsync + 6 + j].ty
             IN  CASE ty = "memref<f32>" -> <<"ptr<float>", "ptr<float>", "i64">>
                   [] ty = "f32" -> <<"float">>
                   [] OTHER -> <<"?">>])

\* ptr addresses some element of the allocation base
RECURSIVE PointsInto(_, _, _)
PointsInto(ops, ptr, base) ==
  IF ~IsDefined(ops, ptr) THEN FALSE
  ELSE IF DefOp(ops, ptr).kind = "llvm.bitcast"
  THEN PointsInto(ops, DefOp(ops, ptr).operands[1], base)
  ELSE /\ DefOp(ops, ptr).kind = "llvm.getelementptr"
       /\ DefOp(ops, ptr).operands[1] = base

\* the stores of ops into any element of the allocation base
StoresInto(ops, base) ==
  {i \in 1..Len(ops) :
     ops[i].kind = "llvm.store" /\ PointsInto(ops, ops[i].operands[2], base)}

\* the operations of block ops created at launch site id
CreatedAt(ops, id) == {i \in 1..Len(ops) : Origin(ops[i]) = id}

NoKernelOperands(l) == Len(l.operands) = l.numAsync + 6

\* launch id is synchronous and names a device module the input lacks
Unresolved(id) ==
  /\ ~HasAsyncMarker(InputLaunch(id))
  /\ \A i \in DeviceModulesIn(m0.body) :
       m0.body[i].name # InputLaunch(id).module

\* the attribute name the pass is to look up, given its constructor argument
ExpectedKey ==
  IF m0.blob_annotation = "" THEN kDefaultBlobAnnotation
  ELSE m0.blob_annotation

\* the device module named M of the input carries a string attribute under key
CarriesKey(M, key) ==
  \E i \in DeviceModulesIn(m0.body) :
    m0.body[i].name = M /\ m0.body[i].key = key

\* the conversion step in which a rewrite is rejected
RejectingStep ==
  pc = "Converting" /\ pc' = "Cleaning" /\ Len(diags') = Len(diags) + 1

\* the module body with the helper declarations made during the run removed
WithoutNewDeclarations(b) ==
  SelectSeq(b, LAMBDA op :
    op.kind # "llvm.func" \/ \E i \in 1..Len(m0.body) : m0.body[i] = op)

GlobalsIn(b) == {i \in 1..Len(b) : b[i].kind = "llvm.mlir.global"}

\* the ids of the launch ops of the host functions fb
LaunchIdsIn(fb) == {fb[p[1]][p[2]].id : p \in LaunchesIn(fb)}

\* the element a pointer addresses, as <<allocation, index>>: a gep with a
\* constant last index (and a zero first index, for a struct), possibly seen
\* through bitcasts; <<>> for any other pointer
RECURSIVE Address(_, _)
Address(ops, ptr) ==
  IF ~IsDefined(ops, ptr) THEN <<>>
  ELSE IF DefOp(ops, ptr).kind = "llvm.bitcast"
  THEN Address(ops, DefOp(ops, ptr).operands[1])
  ELSE IF /\ DefOp(ops, ptr).kind = "llvm.getelementptr"
          /\ Len(DefOp(ops, ptr).operands) = 3
               => ConstOf(ops, DefOp(ops, ptr).operands[2]) = 0
  THEN <<DefOp(ops, ptr).operands[1],
         ConstOf(ops, DefOp(ops, ptr).operands[Len(DefOp(ops, ptr).operands)])>>
  ELSE <<>>

\* every store of ops, with the element it writes
StoredAt(ops) ==
  {<<Address(ops, ops[s].operands[2]), s>> :
     s \in {k \in 1..Len(ops) : ops[k].kind = "llvm.store"}}

StoresAt(stored, addr) == {x[2] : x \in {y \in stored : y[1] = addr}}

Last(S) == CHOOSE i \in S : \A j \in S : j <= i

LoweringStep == pc = "Converting" /\ pc' = "Converting" /\ worklist' # worklist

Ended == pc \in {"Cleaning", "Done"}

StillALaunch(id) == \E p \in RemainingLaunches : OpAt(p).id = id

DiagsOfKind(k) == {i \in 1..Len(diags) : diags[i].kind = k}

----------------------------------------------------------------------------
(* Properties *)

\* C1: when every launch of the input module is synchronous and targets a
\* device module carrying the configured blob annotation, a successful run
\* leaves no launch op in the module.
C1_NoResidualLaunch ==
  (Succeeded /\ \A id \in InputLaunchIds : Lowerable(id))
    => RemainingLaunches = {}

C1_Witness ==
  /\ Succeeded
  /\ \A id \in InputLaunchIds : Lowerable(id)
  /\ Cardinality(InputLaunchIds) >= 2
  /\ Cardinality(CallPositions) >= 2

\* C2: no two global constants of the module share a name, and after a
\* successful run each device module M named by a launch has exactly one
\* global constant named M_blob.
C2_ConstantsDedupByName ==
  /\ \A i, j \in 1..Len(body) :
       (body[i].kind = "llvm.mlir.global" /\ body[j].kind = "llvm.mlir.global"
        /\ body[i].name = body[j].name) => i = j
  /\ Succeeded =>
       \A id \in InputLaunchIds :
         Cardinality(GlobalsNamed(InputLaunch(id).module \o s_blob)) = 1

\* C3 as stated: the device modules are swept only when the conversion
\* succeeded; after a failed conversion the device modules of the input are
\* still in the module.
C3_SweepOnlyOnSuccess ==
  passFailed =>
    \A i \in DeviceModulesIn(m0.body) :
      \E j \in DeviceModulesIn(body) : body[j].name = m0.body[i].name

\* C3 amended: the sweep runs after the conversion step whether or not it
\* succeeded; a failed invocation ends with pass failure signalled and with
\* no device module left in the module.
C3_SweepAlsoAfterFailure ==
  (pc = "Done" /\ passFailed) => DeviceModulesIn(body) = {}

C3_Witness ==
  /\ pc = "Done"
  /\ passFailed
  /\ DeviceModulesIn(m0.body) # {}
  /\ RemainingLaunches # {}

\* C4: after a successful run no device module is left in the module.
C4_NoResidualDeviceModule ==
  Succeeded => DeviceModulesIn(body) = {}

C4_Witness ==
  /\ Succeeded
  /\ Cardinality(DeviceModulesIn(m0.body)) = 2
  /\ CallPositions # {}


\* C5: the module never holds more than one declaration of the launch
\* helper; a lowering that finds none declares it at the start of the module
\* body, a lowering that finds one keeps exactly that one, and every emitted
\* call names the helper.
C5_EntryPointSingleton ==
  /\ [](Cardinality(HelperDeclsIn(body)) <= 1)
  /\ [][LoweringStep =>
          /\ Cardinality(HelperDeclsIn(body')) = 1
          /\ HelperDeclsIn(body) = {} => body'[1].kind = "llvm.func"
                                         /\ body'[1].name = kTfWrapperLibaryLaunchHelperName
          /\ \A i \in HelperDeclsIn(body) :
               \E j \in HelperDeclsIn(body') : body'[j] = body[i]
          /\ \A fi \in HostFuncs : \A k \in 1..Len(fbody'[fi]) :
               fbody'[fi][k].kind = "llvm.call"
                 => fbody'[fi][k].name = kTfWrapperLibaryLaunchHelperName]_vars

C5_Witness ==
  /\ HelperDeclsIn(m0.body) = {}
  /\ Cardinality(HelperDeclsIn(body)) = 1
  /\ Cardinality(CallPositions) >= 2

\* C6: a launch op with an async dependency or an async token is never
\* lowered: it stays in its function, no call is emitted for it, the rewrite
\* reports a match failure, and the invocation ends failed.
C6_AsyncRejection ==
  /\ \A id \in InputLaunchIds :
       HasAsyncMarker(InputLaunch(id)) =>
         /\ StillALaunch(id)
         /\ CallsFor(id) = {}
         /\ Ended => passFailed
  /\ \A i \in DiagsOfKind("matchFailure") :
       HasAsyncMarker(InputLaunch(diags[i].id))
  /\ (Ended /\ \A id \in InputLaunchIds : HasAsyncMarker(InputLaunch(id)))
       => DiagsOfKind("matchFailure") # {}

C6_Witness ==
  /\ pc = "Done"
  /\ passFailed
  /\ CallPositions # {}
  /\ \E id \in InputLaunchIds :
       InputLaunch(id).numAsync > 0 /\ InputLaunch(id).result = NoValue
  /\ DiagsOfKind("matchFailure") # {}

\* C7: a synchronous launch op whose device module lacks the configured blob
\* annotation is never lowered, the invocation ends failed, and the error is
\* reported on that device module and names the configured key.
C7_MissingBlobRejection ==
  /\ \A id \in InputLaunchIds :
       (~HasAsyncMarker(InputLaunch(id)) /\ ~CarriesBlob(InputLaunch(id).module))
         => /\ StillALaunch(id)
            /\ CallsFor(id) = {}
            /\ Ended => passFailed
  /\ \A i \in DiagsOfKind("opError") :
       /\ diags[i].key = blob_annotation_
       /\ ~CarriesBlob(diags[i].on)
       /\ \E id \in InputLaunchIds : InputLaunch(id).module = diags[i].on
  /\ (/\ Ended
      /\ \A id \in InputLaunchIds : ~HasAsyncMarker(InputLaunch(id))
      /\ \E id \in InputLaunchIds : ~CarriesBlob(InputLaunch(id).module))
       => DiagsOfKind("opError") # {}

C7_Witness ==
  /\ pc = "Done"
  /\ passFailed
  /\ CallPositions # {}
  /\ \E i \in DiagsOfKind("opError") :
       diags[i].on = s_K /\ diags[i].key = "binary"

C9_CallOperandLayout ==
  \A p \in CallPositions :
    LET ops == fbody[p[1]]
        c == OpAt(p)
        l == InputLaunch(SiteOfCall(c))
    IN  /\ Len(c.operands) = 10
        /\ Key(c.operands[1]) = [tag |-> "arg", site |-> p[1], n |-> 0]
        /\ GlobalPointee(ops, c.operands[2]) = l.module \o s_blob
        /\ GlobalPointee(ops, c.operands[3])
             = l.module \o s_underscore \o l.name \o s_kernel_name
        /\ \A k \in 1..6 :
             Key(c.operands[3 + k]) = Key(l.operands[l.numAsync + k])
        /\ IsDefined(ops, c.operands[10])
        /\ DefOp(ops, c.operands[10]).kind = "llvm.alloca"
        /\ DefOp(ops, c.operands[10]).result.site = l.id
        /\ ConstOf(ops, DefOp(ops, c.operands[10]).operands[1])
             = Len(ExpectedArguments(l))

C9_Witness ==
  /\ Succeeded
  /\ \E p \in CallPositions : p[1] = 2 /\ OpAt(p).operands[4].n = 1
  /\ \E p \in CallPositions : p[1] = 1

\* C10: for every emitted call, of entry point E in device module M, the
\* module has a global named M_E_kernel_name, every global of that name holds
\* the bytes of E followed by one zero byte, and the call's third operand
\* points to it.
C10_KernelNameConstant ==
  \A p \in CallPositions :
    LET l == InputLaunch(SiteOfCall(OpAt(p)))
        name == l.module \o <<95>> \o l.name \o s_kernel_name
    IN  /\ GlobalsNamed(name) # {}
        /\ \A g \in GlobalsNamed(name) :
             /\ Len(body[g].value) = Len(l.name) + 1
             /\ SubSeq(body[g].value, 1, Len(l.name)) = l.name
             /\ body[g].value[Len(l.name) + 1] = 0
        /\ GlobalPointee(fbody[p[1]], OpAt(p).operands[3]) = name

C10_Witness ==
  /\ Succeeded
  /\ \E g \in GlobalsNamed(s_K \o <<95>> \o s_k2 \o s_kernel_name) :
       body[g].value = <<107, 50, 0>>
  /\ \E g \in GlobalsNamed(s_L \o <<95>> \o s_kern \o s_kernel_name) :
       body[g].value = <<107, 101, 114, 110, 0>>

\* C11: for every emitted call, of a launch targeting device module M, the
\* module has a global named M_blob, every global of that name holds exactly
\* the bytes of M's blob annotation (same length, same bytes), the call's
\* second operand points to it, and this still holds once M has been erased.
C11_BlobConstant ==
  \A p \in CallPositions :
    LET l == InputLaunch(SiteOfCall(OpAt(p)))
        name == l.module \o <<95, 98, 108, 111, 98>>
    IN  /\ GlobalsNamed(name) # {}
        /\ \A g \in GlobalsNamed(name) :
             /\ Len(body[g].value) = Len(InputBlob(l.module))
             /\ \A i \in 1..Len(InputBlob(l.module)) :
                  body[g].value[i] = InputBlob(l.module)[i]
        /\ GlobalPointee(fbody[p[1]], OpAt(p).operands[2]) = name

C11_Witness ==
  /\ Succeeded
  /\ DeviceModulesIn(body) = {}
  /\ \E p \in CallPositions : InputLaunch(SiteOfCall(OpAt(p))).module = s_L
  /\ \E g \in GlobalsNamed(s_L \o s_blob) : body[g].value = <<205, 0>>
  /\ \E g \in GlobalsNamed(s_K \o s_blob) : body[g].value = <<171>>

\* C12: a rejected rewrite is fatal for the invocation: once a rewrite has
\* reported a failure the conversion is over and pass failure is signalled, at
\* most one rewrite failure is ever reported (the rejected launch is not tried
\* again), an invocation whose input holds a launch that cannot be lowered
\* ends failed, and an invocation that ends without failure has no launch
\* left.
C12_ErrorsInvocationFatal ==
  /\ Len(diags) <= 1
  /\ diags # <<>> => (Ended /\ passFailed)
  /\ (Ended /\ \E id \in InputLaunchIds : ~Lowerable(id)) => passFailed
  /\ (pc = "Done" /\ ~passFailed) => RemainingLaunches = {}

C12_Witness ==
  /\ pc = "Done"
  /\ passFailed
  /\ Len(diags) = 1
  /\ \E id \in InputLaunchIds : Lowerable(id) /\ StillALaunch(id)
  /\ \E id \in InputLaunchIds : ~Lowerable(id) /\ StillALaunch(id)

\* C13: every lowering step removes one launch op and adds one call; after
\* a successful run there are as many calls as the input had launch ops,
\* exactly one per launch op, no launch op is left, and each host function is
\* its input with every launch op replaced, in place, by the operations
\* created for that launch, the last of which is the call.
C13_OneForOne ==
  /\ [][LoweringStep =>
          /\ Cardinality(CallsIn(fbody')) = Cardinality(CallsIn(fbody)) + 1
          /\ Cardinality(LaunchesIn(fbody'))
               = Cardinality(LaunchesIn(fbody)) - 1]_vars
  /\ [](Succeeded =>
          /\ Cardinality(CallPositions) = Cardinality(InputLaunchIds)
          /\ RemainingLaunches = {}
          /\ \A id \in InputLaunchIds :
               Cardinality({p \in CallPositions : Origin(OpAt(p)) = id}) = 1
          /\ \A fi \in HostFuncs :
               /\ Collapse(OutputShape(fbody[fi])) = InputShape(m0.fbody[fi])
               /\ \A k \in 1..Len(fbody[fi]) :
                    (/\ Origin(fbody[fi][k]) # 0
                     /\ Origin(fbody[fi][k + 1]) # Origin(fbody[fi][k]))
                      => fbody[fi][k].kind = "llvm.call")

C13_Witness ==
  /\ Succeeded
  /\ Cardinality(InputLaunchIds) = 2
  /\ Cardinality(CallsIn(fbody)) = 2
  /\ \A fi \in HostFuncs : Len(fbody[fi]) > 8 /\ Len(m0.fbody[fi]) = 2

\* C14: for every emitted call there is one parameter record whose field
\* types are those of the launch's kernel arguments, in order; the pointer
\* array passed to the call is allocated with as many elements as the record
\* has fields; the record receives one store per field, and no value stored
\* into it is, or is extracted from, a dimension or dependency operand.
C14_TrailingSuffixOnly ==
  \A p \in CallPositions :
    LET ops == fbody[p[1]]
        c == OpAt(p)
        l == InputLaunch(SiteOfCall(c))
    IN  /\ Cardinality(StructAllocas(ops)) = 1
        /\ \A r \in StructAllocas(ops) :
             /\ ops[r].types = ExpectedTypes(l)
             /\ ConstOf(ops, ops[r].operands[1]) = 1
             /\ ConstOf(ops, DefOp(ops, c.operands[10]).operands[1])
                  = Len(ops[r].types)
             /\ Cardinality(StoresInto(ops, ops[r].result)) = Len(ops[r].types)
             /\ \A i \in StoresInto(ops, ops[r].result) :
                  /\ Key(ops[i].operands[1]) \notin LeadingOperands(l)
                  /\ Describe(ops, ops[i].operands[1]).src
                       \notin LeadingOperands(l)

C14_Witness ==
  /\ pc = "Done"
  /\ \E p \in CallPositions :
       LET l == InputLaunch(SiteOfCall(OpAt(p)))
       IN  /\ Len(l.operands) = 6 + 3
           /\ l.operands[7].ty = "memref<f32>"
           /\ l.operands[9].ty = "f32"
           /\ \E r \in StructAllocas(fbody[p[1]]) :
                /\ Len(fbody[p[1]][r].types) >= 5
                /\ Cardinality(StoresInto(fbody[p[1]], fbody[p[1]][r].result)) >= 5

\* C15: the operations created for a launch without kernel operands hold
\* exactly two allocations, one of one record without fields and one of an
\* array of zero pointers, and no store; the call passes that array; and a
\* successful run has lowered every such launch to exactly one call.
C15_ZeroArgumentLaunch ==
  /\ \A p \in CallPositions :
       LET ops == fbody[p[1]]
           c == OpAt(p)
           l == InputLaunch(SiteOfCall(c))
           created == CreatedAt(ops, l.id)
           allocas == {i \in created : ops[i].kind = "llvm.alloca"}
       IN  NoKernelOperands(l) =>
             /\ Cardinality(allocas) = 2
             /\ \E r, a \in allocas :
                  /\ r # a
                  /\ ops[r].result.ty = "ptr<struct>"
                  /\ ops[r].types = <<>>
                  /\ ConstOf(ops, ops[r].operands[1]) = 1
                  /\ ConstOf(ops, ops[a].operands[1]) = 0
                  /\ c.operands[10] = ops[a].result
             /\ \A i \in created : ops[i].kind # "llvm.store"
  /\ Succeeded =>
       \A id \in InputLaunchIds :
         NoKernelOperands(InputLaunch(id)) =>
           Cardinality({p \in CallPositions : Origin(OpAt(p)) = id}) = 1

C15_Witness ==
  /\ Succeeded
  /\ \E p \in CallPositions :
       /\ NoKernelOperands(InputLaunch(SiteOfCall(OpAt(p))))
       /\ Cardinality(CreatedAt(fbody[p[1]], SiteOfCall(OpAt(p)))) = 12
  /\ \E p \in CallPositions : ~NoKernelOperands(InputLaunch(SiteOfCall(OpAt(p))))

\* C16: no operation inside a device module is ever queued for conversion;
\* until the strip loop starts the device modules of the module are those of
\* the input, unchanged (name, blob annotation and interior); and a device
\* module the strip loop has not erased yet is still unchanged.
C16_DeviceModulesUntouched ==
  /\ worklist \subseteq InputLaunchIds
  /\ pc \in {"Configuring", "Converting"} =>
       SelectSeq(body, LAMBDA op : op.kind = "gpu.module")
         = SelectSeq(m0.body, LAMBDA op : op.kind = "gpu.module")
  /\ \A i \in DeviceModulesIn(body) :
       \E j \in DeviceModulesIn(m0.body) : body[i] = m0.body[j]

C16_Witness ==
  /\ pc = "Converting"
  /\ worklist = {}
  /\ Cardinality(CallPositions) >= 2
  /\ Cardinality(DeviceModulesIn(body)) = 2
  /\ \A i \in DeviceModulesIn(body) :
       \E k \in 1..Len(body[i].region) : body[i].region[k].kind = "gpu.func"

C18_BlobAnnotationKey ==
  /\ m0.blob_annotation # "" => blob_annotation_ = m0.blob_annotation
  /\ m0.blob_annotation = "" => blob_annotation_ = kDefaultBlobAnnotation
  /\ blob_annotation_ # ""
  /\ pc # "Configuring" => gpu_binary_annotation_ = ExpectedKey
  /\ \A p \in CallPositions :
       CarriesKey(InputLaunch(SiteOfCall(OpAt(p))).module, ExpectedKey)
  /\ \A i \in DiagsOfKind("opError") :
       diags[i].key = ExpectedKey /\ ~CarriesKey(diags[i].on, ExpectedKey)

C18_Witness ==
  /\ pc = "Done"
  /\ m0.blob_annotation = ""
  /\ \E p \in CallPositions : InputLaunch(SiteOfCall(OpAt(p))).module = s_K
  /\ \E i \in DiagsOfKind("opError") :
       diags[i].on = s_L /\ diags[i].key = "gpu.binary_blob"
  /\ CarriesKey(s_L, "binary")

\* C19: the step in which a rewrite is rejected creates nothing and removes
\* nothing: the module after it is the module before it (or that module with
\* the earlier rewrites of the run undone by the failing conversion); it has
\* no more globals, helper declarations, calls or operations in any host
\* function than before, and every launch op not yet lowered, the rejected
\* one among them, is still in place.
C19_RejectionPrecedesMutation ==
  [][RejectingStep =>
       /\ \/ body' = body /\ fbody' = fbody
          \/ body' = WithoutNewDeclarations(body) /\ fbody' = m0.fbody
          \/ body' = m0.body /\ fbody' = m0.fbody
       /\ Cardinality(GlobalsIn(body')) <= Cardinality(GlobalsIn(body))
       /\ Cardinality(HelperDeclsIn(body')) <= Cardinality(HelperDeclsIn(body))
       /\ Cardinality(CallsIn(fbody')) <= Cardinality(CallsIn(fbody))
       /\ \A fi \in HostFuncs : Len(fbody'[fi]) <= Len(fbody[fi])
       /\ \A id \in worklist :
            \E p \in LaunchesIn(fbody') : fbody'[p[1]][p[2]].id = id]_vars

C19_Witness ==
  /\ pc = "Cleaning"
  /\ passFailed
  /\ Len(diags) = 1
  /\ Cardinality(CallPositions) = 1
  /\ Cardinality(GlobalsIn(body)) = 2
  /\ Cardinality(HelperDeclsIn(body)) = 1
  /\ Cardinality(DeviceModulesIn(body)) = Cardinality(DeviceModulesIn(m0.body))
  /\ \E id \in worklist : StillALaunch(id) /\ ~Lowerable(id)

\* C20: in every lowering step the call is created in the host function of
\* the launch op, as the last of the operations that take the launch op's
\* place, with the operations before and after the launch op untouched,
\* whether or not the step declares the helper; no call is ever placed at
\* module level; a step that declares the helper adds the declaration at the
\* start of the module body and, with the two globals, nothing else.
C20_InsertionPointRestored ==
  [][LoweringStep =>
       \E id \in worklist \ worklist' :
         LET fi == FuncOf(fbody, id)
             k == PosOf(fbody, id)
             d == Len(fbody'[fi]) - Len(fbody[fi])
         IN  /\ d >= 0
             /\ fbody'[fi][k + d].kind = "llvm.call"
             /\ SubSeq(fbody'[fi], 1, k - 1) = SubSeq(fbody[fi], 1, k - 1)
             /\ SubSeq(fbody'[fi], k + d + 1, Len(fbody'[fi]))
                  = SubSeq(fbody[fi], k + 1, Len(fbody[fi]))
             /\ \A fj \in HostFuncs \ {fi} : fbody'[fj] = fbody[fj]
             /\ \A i \in 1..Len(body') : body'[i].kind # "llvm.call"
             /\ HelperDeclsIn(body) = {} =>
                  /\ Len(body') = Len(body) + 3
                  /\ body'[1].kind = "llvm.func"
                  /\ body'[1].name = kTfWrapperLibaryLaunchHelperName
                  /\ body'[2].kind = "llvm.mlir.global"
                  /\ body'[3].kind = "llvm.mlir.global"
                  /\ SubSeq(body', 4, Len(body')) = body
             /\ HelperDeclsIn(body) # {} =>
                  /\ Len(body') = Len(body) + 2
                  /\ body'[1].kind = "llvm.mlir.global"
                  /\ body'[2].kind = "llvm.mlir.global"
                  /\ SubSeq(body', 3, Len(body')) = body]_vars

C20_Witness ==
  /\ pc = "Converting"
  /\ HelperDeclsIn(m0.body) = {}
  /\ HelperDeclsIn(body) = {1}
  /\ Cardinality(GlobalsIn(body)) = 2
  /\ \E p \in CallPositions :
       /\ CallPositions = {p}
       /\ p[2] = Len(fbody[p[1]]) - 1
       /\ fbody[p[1]][p[2] + 1].kind = "llvm.return"

\* C21: every call that passes the dimensions of launch op l sits in l's
\* host function and passes nothing of another launch: its blob pointer
\* addresses the global named after l's device module, which holds that
\* module's blob; its name pointer addresses the global named after l's
\* device module and entry point; its parameter array is the one allocated
\* for l, whose slots lead to fields holding l's own arguments in order; no
\* call serves two launch ops; and this holds in whatever order the launch
\* ops are lowered.
C21_NoCrossWiring ==
  /\ \A id \in InputLaunchIds : \A p \in CallsFor(id) :
       \A l \in {InputLaunch(id)}, ops \in {fbody[p[1]]}, c \in {OpAt(p)} :
         /\ p[1] = FuncOf(m0.fbody, id)
         /\ \A j \in 1..Len(c.operands) :
              c.operands[j].tag \in {"val", "res"} => c.operands[j].site = id
         /\ \A blobName \in {GlobalPointee(ops, c.operands[2])} :
              /\ blobName = l.module \o <<95>> \o <<98, 108, 111, 98>>
              /\ \A g \in GlobalsNamed(blobName) :
                   body[g].value = InputBlob(l.module)
         /\ GlobalPointee(ops, c.operands[3])
              = l.module \o <<95>> \o l.name
                  \o <<95, 107, 101, 114, 110, 101, 108, 95, 110, 97, 109, 101>>
         /\ \A stored \in {StoredAt(ops)}, expected \in {ExpectedArguments(l)} :
              \A i \in 0..(Len(expected) - 1) :
                \A slots \in {StoresAt(stored, <<c.operands[10], i>>)} :
                  /\ slots # {}
                  /\ \A field \in {Address(ops, ops[Last(slots)].operands[1])} :
                       /\ field # <<>>
                       /\ field[2] = i
                       /\ IsDefined(ops, field[1])
                       /\ DefOp(ops, field[1]).kind = "llvm.alloca"
                       /\ field[1].ty = "ptr<struct>"
                       /\ field[1].site = id
                       /\ \A fills \in {StoresAt(stored, field)} :
                            /\ fills # {}
                            /\ \A arg \in {Describe(ops, ops[Last(fills)].operands[1])} :
                                 /\ arg = expected[i + 1]
                                 /\ arg.src.site = id
  /\ \A id1, id2 \in InputLaunchIds :
       id1 # id2 => CallsFor(id1) \cap CallsFor(id2) = {}
  /\ Succeeded => \A id \in InputLaunchIds : Cardinality(CallsFor(id)) = 1

C21_Witness ==
  /\ Succeeded
  /\ InputLaunch(1).module = s_K
  /\ \E id \in InputLaunchIds : InputLaunch(id).module = s_L
  /\ \A id \in InputLaunchIds : CallsFor(id) # {}
  /\ \E i \in GlobalsNamed(s_K \o s_blob), j \in GlobalsNamed(s_L \o s_blob) :
       i < j

\* C22: every invocation comes to an end: runOnOperation returns, with or
\* without pass failure signalled, or the process is stopped at the failed
\* assertion; and every lowering step removes exactly one launch op from the
\* host functions and from the work still to do, and adds none.
C22_Termination ==
  /\ <>(pc \in {"Done", "Aborted"})
  /\ [][LoweringStep =>
          /\ LaunchIdsIn(fbody') \subseteq LaunchIdsIn(fbody)
          /\ Cardinality(LaunchIdsIn(fbody'))
               = Cardinality(LaunchIdsIn(fbody)) - 1
          /\ worklist' \subseteq worklist
          /\ Cardinality(worklist') = Cardinality(worklist) - 1
          /\ \A fi \in HostFuncs : \A k \in 1..Len(fbody'[fi]) :
               Origin(fbody'[fi][k]) # 0
                 => fbody'[fi][k].kind # "gpu.launch_func"]_vars

C22_Witness ==
  /\ pc = "Done"
  /\ ~passFailed
  /\ worklist = {}
  /\ Cardinality(LaunchIdsIn(m0.fbody)) >= 2
  /\ LaunchIdsIn(fbody) = {}
  /\ GlobalsIn(body) # {}

====
